---- MODULE Spec2Model ----
(***************************************************************************)
(* Limit-order-book matching engine (orderbook/src/guid).                  *)
(*                                                                         *)
(* The Orderbook owns two OrderQueues (bid, ask).  process_order validates *)
(* an OrderRequest, dispatches on its variant and returns the accumulated  *)
(* list of events.  Prices, quantities and timestamps are BigDecimal /     *)
(* SystemTime values in the source; they are modelled by small naturals    *)
(* (exact arithmetic, total order), ids by naturals with 0 as Uuid::nil(). *)
(***************************************************************************)
EXTENDS Integers, Sequences, FiniteSets, TLC

(***************************************************************************)
(* Bounds of the model                                                     *)
(***************************************************************************)
\* non-nil order ids are 1..NumIds
NumIds == 2
\* valid prices are 1..MaxPrice (0 is the rejected value)
MaxPrice == 2
\* valid quantities are 1..MaxQty (0 is the rejected value)
MaxQty == 2
\* request timestamps are 1..MaxTs
MaxTs == 2
\* number of calls made on the orderbook in one behaviour of Spec
MaxCalls == 3
\* number of calls made on the orderbook in one behaviour of SpecRaw
MaxRawCalls == 2
\* number of calls made on the orderbook in one behaviour of SpecClock
MaxClockCalls == 4
\* number of requests submitted in one behaviour of SpecList
MaxListCalls == 4
\* number of calls made on the orderbook in one behaviour of SpecStall
MaxStallCalls == 13

(***************************************************************************)
(* Program constants                                                       *)
(***************************************************************************)
MAX_STALLED_INDICES_IN_QUEUE == 10
ORDER_QUEUE_INIT_CAPACITY == 500

NilId == 0

Bid == "bid"
Ask == "ask"
OrderSide == {Bid, Ask}

Market == "market"
Limit == "limit"

\* the pair the orderbook is constructed with, Orderbook::new(BTC, USD)
BTC == "BTC"
USD == "USD"
Asset == {BTC, USD}

ERR_BAD_ORDER_ASSET == "bad order asset"
ERR_BAD_PRICE_ASSET == "bad price asset"
ERR_BAD_PRICE_VALUE == "price must be non-negative"
ERR_BAD_QUANTITY_VALUE == "quantity must be non-negative"
ERR_BAD_ORDER_ID == "order ID invalid"
ValidationOk == "ok"

(***************************************************************************)
(* Domain records                                                          *)
(***************************************************************************)
Order(order_id, order_asset, price_asset, side, price, qty) ==
    [order_id |-> order_id, order_asset |-> order_asset, price_asset |-> price_asset,
     side |-> side, price |-> price, qty |-> qty]

\* Option::None of peek / pop
NoOrder == [order_id |-> -1]

\* Success events
Accepted(order_id, order_asset, order_type, price_asset, price, qty, side) ==
    [type |-> "Accepted", order_id |-> order_id, order_asset |-> order_asset,
     order_type |-> order_type, price_asset |-> price_asset, price |-> price,
     qty |-> qty, side |-> side]

Filled(order_id, side, order_type, price, qty) ==
    [type |-> "Filled", order_id |-> order_id, side |-> side,
     order_type |-> order_type, price |-> price, qty |-> qty]

PartiallyFilled(order_id, side, order_type, price, qty) ==
    [type |-> "PartiallyFilled", order_id |-> order_id, side |-> side,
     order_type |-> order_type, price |-> price, qty |-> qty]

Amended(order_id, price, qty) ==
    [type |-> "Amended", order_id |-> order_id, price |-> price, qty |-> qty]

Cancelled(order_id) == [type |-> "Cancelled", order_id |-> order_id]

\* Failed events
ValidationFailed(reason) == [type |-> "ValidationFailed", reason |-> reason]
DuplicateOrderID(order_id) == [type |-> "DuplicateOrderID", order_id |-> order_id]
NoMatch(order_id) == [type |-> "NoMatch", order_id |-> order_id]
OrderNotFound(order_id) == [type |-> "OrderNotFound", order_id |-> order_id]

\* the price carried by Accepted for a market order (Option::None)
NoPrice == -1

\* OrderRequest variants
NewMarketOrderRequest(order_id, order_asset, price_asset, side, qty, ts) ==
    [kind |-> "NewMarketOrder", order_id |-> order_id, order_asset |-> order_asset,
     price_asset |-> price_asset, side |-> side, qty |-> qty, ts |-> ts]

NewLimitOrderRequest(order_id, order_asset, price_asset, side, price, qty, ts) ==
    [kind |-> "NewLimitOrder", order_id |-> order_id, order_asset |-> order_asset,
     price_asset |-> price_asset, side |-> side, price |-> price, qty |-> qty, ts |-> ts]

AmendOrderRequest(id, side, price, qty, ts) ==
    [kind |-> "AmendOrder", id |-> id, side |-> side, price |-> price, qty |-> qty, ts |-> ts]

CancelOrderRequest(id, side) == [kind |-> "CancelOrder", id |-> id, side |-> side]

(***************************************************************************)
(* OrderQueue (order_queues.rs): one side of the book.                     *)
(*   heap     entries (id, price, ts) in insertion order; the top is the   *)
(*            entry with the best (price, ts), the earliest inserted one   *)
(*            among equals                                                 *)
(*   orders   id -> Order, the live orders                                 *)
(*   prio     id -> (price, ts), the authoritative priority of a live id   *)
(*   stalled  ids whose heap entry was orphaned by cancel / amend          *)
(*   stalled_count  number of entries orphaned since the last rebuild      *)
(***************************************************************************)
OrderQueue_new(side, max_stalled) ==
    [queue_side |-> side, max_stalled |-> max_stalled, heap |-> <<>>,
     orders |-> <<>>, prio |-> <<>>, stalled |-> {}, stalled_count |-> 0]

HeapEntry(id, price, ts) == [id |-> id, price |-> price, ts |-> ts]

\* comparator of the heap: a has strictly higher priority than b
\* (bid: descending price, ascending ts; ask: ascending price, ascending ts)
Better(side, a, b) ==
    \/ IF side = Bid THEN a.price > b.price ELSE a.price < b.price
    \/ a.price = b.price /\ a.ts < b.ts

RemoveAt(s, i) == SubSeq(s, 1, i - 1) \o SubSeq(s, i + 1, Len(s))

RemoveKey(f, k) == [x \in DOMAIN f \ {k} |-> f[x]]

\* index of the top-of-heap entry of a non-empty heap
TopIndex(q) ==
    CHOOSE i \in 1..Len(q.heap) :
        /\ \A j \in 1..Len(q.heap) : ~Better(q.queue_side, q.heap[j], q.heap[i])
        /\ \A j \in 1..(i - 1) : Better(q.queue_side, q.heap[i], q.heap[j])

\* a heap entry left behind by cancel / amend
IsStall(q, e) ==
    \/ e.id \notin DOMAIN q.orders
    \/ q.prio[e.id] # <<e.price, e.ts>>

\* discard stalled entries from the top of the heap
RECURSIVE SkipStalls(_)
SkipStalls(q) ==
    IF q.heap = <<>> THEN q
    ELSE LET i == TopIndex(q) IN
         IF IsStall(q, q.heap[i])
         THEN SkipStalls([q EXCEPT !.heap = RemoveAt(q.heap, i)])
         ELSE q

\* peek(): the queue after skipping stalls, and a copy of the best live order
peek(q) ==
    LET q1 == SkipStalls(q) IN
    [q |-> q1,
     order |-> IF q1.heap = <<>> THEN NoOrder
               ELSE q1.orders[q1.heap[TopIndex(q1)].id]]

\* pop(): like peek, and removes the returned order from the maps and the heap
pop(q) ==
    LET q1 == SkipStalls(q) IN
    IF q1.heap = <<>> THEN [q |-> q1, order |-> NoOrder]
    ELSE LET i == TopIndex(q1)
             id == q1.heap[i].id
         IN [q |-> [q1 EXCEPT !.heap = RemoveAt(q1.heap, i),
                              !.orders = RemoveKey(q1.orders, id),
                              !.prio = RemoveKey(q1.prio, id)],
             order |-> q1.orders[id]]

\* rebuild: drop every stalled entry from the heap (one entry per live id
\* is kept, in the order the entries were pushed)
rebuild(q) ==
    LET Keep(i) == /\ ~IsStall(q, q.heap[i])
                   /\ \A j \in 1..(i - 1) : q.heap[j] # q.heap[i]
        F[i \in 0..Len(q.heap)] ==
            IF i = 0 THEN <<>>
            ELSE IF Keep(i) THEN Append(F[i - 1], q.heap[i]) ELSE F[i - 1]
    IN [q EXCEPT !.heap = F[Len(q.heap)], !.stalled = {}, !.stalled_count = 0]

\* rebuild once the stall budget is exceeded
clean_check(q) == IF q.stalled_count > q.max_stalled THEN rebuild(q) ELSE q

\* insert(id, price, ts, order): fails when the id is already live in this queue
insert(q, id, price, ts, order) ==
    IF id \in DOMAIN q.orders THEN [q |-> q, ok |-> FALSE]
    ELSE [q |-> [q EXCEPT !.orders = (id :> order) @@ q.orders,
                          !.prio = (id :> <<price, ts>>) @@ q.prio,
                          !.heap = Append(q.heap, HeapEntry(id, price, ts))],
          ok |-> TRUE]

\* cancel(id): remove a live order, leaving its heap entry as a stall
cancel(q, id) ==
    IF id \notin DOMAIN q.orders THEN [q |-> q, ok |-> FALSE]
    ELSE [q |-> clean_check([q EXCEPT !.orders = RemoveKey(q.orders, id),
                                      !.prio = RemoveKey(q.prio, id),
                                      !.stalled = q.stalled \cup {id},
                                      !.stalled_count = q.stalled_count + 1]),
          ok |-> TRUE]

\* amend(id, price, ts, order): replace the order and its priority, pushing a
\* fresh heap entry and orphaning the old one
amend(q, id, price, ts, order) ==
    IF id \notin DOMAIN q.orders THEN [q |-> q, ok |-> FALSE]
    ELSE [q |-> clean_check([q EXCEPT !.orders = (id :> order) @@ q.orders,
                                      !.prio = (id :> <<price, ts>>) @@ q.prio,
                                      !.heap = Append(q.heap, HeapEntry(id, price, ts)),
                                      !.stalled = q.stalled \cup {id},
                                      !.stalled_count = q.stalled_count + 1]),
          ok |-> TRUE]

\* modify_current_order(order): replace the top-of-book order in place, keeping
\* its priority; a no-op when the id is not the current top
modify_current_order(q, new_order) ==
    LET pk == peek(q) IN
    IF pk.order # NoOrder /\ pk.order.order_id = new_order.order_id
    THEN [pk.q EXCEPT !.orders = (new_order.order_id :> new_order) @@ pk.q.orders]
    ELSE pk.q

(***************************************************************************)
(* OrderRequestValidator (validation.rs)                                   *)
(***************************************************************************)
orderbook_order_asset == BTC
orderbook_price_asset == USD

validate_market(order_asset, price_asset, qty) ==
    IF orderbook_order_asset # order_asset THEN ERR_BAD_ORDER_ASSET
    ELSE IF orderbook_price_asset # price_asset THEN ERR_BAD_PRICE_ASSET
    ELSE IF qty <= 0 THEN ERR_BAD_QUANTITY_VALUE
    ELSE ValidationOk

\* variant: price and quantity are only required to be non-negative
validate_limit_non_negative(order_asset, price_asset, price, qty) ==
    IF orderbook_order_asset # order_asset THEN ERR_BAD_ORDER_ASSET
    ELSE IF orderbook_price_asset # price_asset THEN ERR_BAD_PRICE_ASSET
    ELSE IF price < 0 THEN ERR_BAD_PRICE_VALUE
    ELSE IF qty < 0 THEN ERR_BAD_QUANTITY_VALUE
    ELSE ValidationOk

validate_limit(order_asset, price_asset, price, qty) ==
    IF orderbook_order_asset # order_asset THEN ERR_BAD_ORDER_ASSET
    ELSE IF orderbook_price_asset # price_asset THEN ERR_BAD_PRICE_ASSET
    ELSE IF price <= 0 THEN ERR_BAD_PRICE_VALUE
    ELSE IF qty <= 0 THEN ERR_BAD_QUANTITY_VALUE
    ELSE ValidationOk

validate_amend(id, price, qty) ==
    IF id = NilId THEN ERR_BAD_ORDER_ID
    ELSE IF price <= 0 THEN ERR_BAD_PRICE_VALUE
    ELSE IF qty <= 0 THEN ERR_BAD_QUANTITY_VALUE
    ELSE ValidationOk

\* variant: the nil id is not checked
validate_cancel_any_id(id) == ValidationOk

validate_cancel(id) ==
    IF id = NilId THEN ERR_BAD_ORDER_ID ELSE ValidationOk

validate(request) ==
    CASE request.kind = "NewMarketOrder" ->
           validate_market(request.order_asset, request.price_asset, request.qty)
      [] request.kind = "NewLimitOrder" ->
           validate_limit(request.order_asset, request.price_asset, request.price, request.qty)
      [] request.kind = "AmendOrder" ->
           validate_amend(request.id, request.price, request.qty)
      [] request.kind = "CancelOrder" ->
           validate_cancel(request.id)

(***************************************************************************)
(* Orderbook (orderbook.rs).  The processing functions thread a record     *)
(*   bid_queue, ask_queue   the two queues                                 *)
(*   results                the OrderProcessingResult accumulator          *)
(*   matches                one entry per order_matching call: the opposite*)
(*                          order and the quantity it was called with      *)
(*   spread                 the return value of current_spread             *)
(***************************************************************************)
\* variant: the two numeric arguments of OrderQueue::new are given in the wrong order
Orderbook_new_swapped_arguments ==
    [bid_queue |-> OrderQueue_new(Bid, ORDER_QUEUE_INIT_CAPACITY),
     ask_queue |-> OrderQueue_new(Ask, ORDER_QUEUE_INIT_CAPACITY),
     results |-> <<>>, matches |-> <<>>, spread |-> <<>>]

Orderbook_new ==
    [bid_queue |-> OrderQueue_new(Bid, MAX_STALLED_INDICES_IN_QUEUE),
     ask_queue |-> OrderQueue_new(Ask, MAX_STALLED_INDICES_IN_QUEUE),
     results |-> <<>>, matches |-> <<>>, spread |-> <<>>]

\* match side { Bid => &mut self.ask_queue, Ask => &mut self.bid_queue }
opposite_queue(bk, side) == IF side = Bid THEN bk.ask_queue ELSE bk.bid_queue

with_opposite_queue(bk, side, q) ==
    IF side = Bid THEN [bk EXCEPT !.ask_queue = q] ELSE [bk EXCEPT !.bid_queue = q]

\* match side { Bid => &mut self.bid_queue, Ask => &mut self.ask_queue }
order_queue(bk, side) == IF side = Bid THEN bk.bid_queue ELSE bk.ask_queue

with_order_queue(bk, side, q) ==
    IF side = Bid THEN [bk EXCEPT !.bid_queue = q] ELSE [bk EXCEPT !.ask_queue = q]

push(bk, event) == [bk EXCEPT !.results = Append(bk.results, event)]

\* variant: the opposite order keeps its whole quantity after a partial fill
unmatched_part_not_reduced(opposite_order, qty) == opposite_order.qty

\* qty: opposite_order.qty.clone() - qty, the unmatched part of the opposite order
unmatched_part(opposite_order, qty) == opposite_order.qty - qty

\* order_matching with one of its steps changed:
\*   "pop_partial"  a partially filled opposite order is popped, not modified
\*   "maker_first"  the opposite order's event is pushed before the new order's
\*   "own_qty"      PartiallyFilled of the new order carries the quantity it came with
\*   "keep_exact"   an opposite order filled by an equal quantity is not popped
\*   "own_side"     the rewritten opposite order is given the side of the new order
\*   "keep_smaller" an opposite order filled by a larger quantity is not popped
\*   "early_filled" a new order larger than the opposite order is reported Filled
\*   "whole_maker"  PartiallyFilled of the opposite order carries its whole quantity
order_matching_variant(flaw, bk, opposite_order, order_id, order_asset, price_asset, order_type, side, qty) ==
    LET b0 == [bk EXCEPT !.matches = Append(bk.matches,
                   [maker |-> opposite_order, qty |-> qty])]
        pair(b, first, second) ==
            IF flaw = "maker_first" THEN push(push(b, second), first)
            ELSE push(push(b, first), second)
    IN
    IF qty < opposite_order.qty THEN
        LET b2 == pair(b0, Filled(order_id, side, order_type, opposite_order.price, qty),
                       PartiallyFilled(opposite_order.order_id, opposite_order.side,
                                       Limit, opposite_order.price,
                                       IF flaw = "whole_maker" THEN opposite_order.qty
                                       ELSE qty))
            b3 == with_opposite_queue(b2, side,
                      IF flaw = "pop_partial" THEN pop(opposite_queue(b2, side)).q
                      ELSE modify_current_order(opposite_queue(b2, side),
                               Order(opposite_order.order_id, order_asset, price_asset,
                                     IF flaw = "own_side" THEN side ELSE opposite_order.side,
                                     opposite_order.price,
                                     unmatched_part(opposite_order, qty))))
        IN [bk |-> b3, complete |-> TRUE]
    ELSE IF qty > opposite_order.qty THEN
        LET b2 == pair(b0, IF flaw = "early_filled"
                           THEN Filled(order_id, side, order_type,
                                       opposite_order.price, opposite_order.qty)
                           ELSE PartiallyFilled(order_id, side, order_type,
                                           opposite_order.price,
                                           IF flaw = "own_qty" THEN qty
                                           ELSE opposite_order.qty),
                       Filled(opposite_order.order_id, opposite_order.side,
                              Limit, opposite_order.price, opposite_order.qty))
            b3 == IF flaw = "keep_smaller" THEN b2
                  ELSE with_opposite_queue(b2, side, pop(opposite_queue(b2, side)).q)
        IN [bk |-> b3, complete |-> FALSE]
    ELSE
        LET b2 == pair(b0, Filled(order_id, side, order_type, opposite_order.price, qty),
                       Filled(opposite_order.order_id, opposite_order.side,
                              Limit, opposite_order.price, qty))
            b3 == IF flaw = "keep_exact" THEN b2
                  ELSE with_opposite_queue(b2, side, pop(opposite_queue(b2, side)).q)
        IN [bk |-> b3, complete |-> TRUE]

order_matching_pops_partial(bk, opposite_order, order_id, order_asset, price_asset, order_type, side, qty) ==
    order_matching_variant("pop_partial", bk, opposite_order, order_id, order_asset,
                           price_asset, order_type, side, qty)

order_matching_maker_first(bk, opposite_order, order_id, order_asset, price_asset, order_type, side, qty) ==
    order_matching_variant("maker_first", bk, opposite_order, order_id, order_asset,
                           price_asset, order_type, side, qty)

order_matching_reports_own_qty(bk, opposite_order, order_id, order_asset, price_asset, order_type, side, qty) ==
    order_matching_variant("own_qty", bk, opposite_order, order_id, order_asset,
                           price_asset, order_type, side, qty)

order_matching_keeps_filled(bk, opposite_order, order_id, order_asset, price_asset, order_type, side, qty) ==
    order_matching_variant("keep_exact", bk, opposite_order, order_id, order_asset,
                           price_asset, order_type, side, qty)

order_matching_rewrites_side(bk, opposite_order, order_id, order_asset, price_asset, order_type, side, qty) ==
    order_matching_variant("own_side", bk, opposite_order, order_id, order_asset,
                           price_asset, order_type, side, qty)

order_matching_keeps_smaller(bk, opposite_order, order_id, order_asset, price_asset, order_type, side, qty) ==
    order_matching_variant("keep_smaller", bk, opposite_order, order_id, order_asset,
                           price_asset, order_type, side, qty)

order_matching_reports_filled_early(bk, opposite_order, order_id, order_asset, price_asset, order_type, side, qty) ==
    order_matching_variant("early_filled", bk, opposite_order, order_id, order_asset,
                           price_asset, order_type, side, qty)

order_matching_reports_whole_maker(bk, opposite_order, order_id, order_asset, price_asset, order_type, side, qty) ==
    order_matching_variant("whole_maker", bk, opposite_order, order_id, order_asset,
                           price_asset, order_type, side, qty)

\* order_matching: one trade against the peeked opposite order; the result
\* is the book and whether the incoming quantity is exhausted
order_matching(bk, opposite_order, order_id, order_asset, price_asset, order_type, side, qty) ==
    LET b0 == [bk EXCEPT !.matches = Append(bk.matches,
                   [maker |-> opposite_order, qty |-> qty])]
    IN
    IF qty < opposite_order.qty THEN
        LET b1 == push(b0, Filled(order_id, side, order_type, opposite_order.price, qty))
            b2 == push(b1, PartiallyFilled(opposite_order.order_id, opposite_order.side,
                                           Limit, opposite_order.price, qty))
            b3 == with_opposite_queue(b2, side,
                      modify_current_order(opposite_queue(b2, side),
                          Order(opposite_order.order_id, order_asset, price_asset,
                                opposite_order.side, opposite_order.price,
                                unmatched_part(opposite_order, qty))))
        IN [bk |-> b3, complete |-> TRUE]
    ELSE IF qty > opposite_order.qty THEN
        LET b1 == push(b0, PartiallyFilled(order_id, side, order_type,
                                           opposite_order.price, opposite_order.qty))
            b2 == push(b1, Filled(opposite_order.order_id, opposite_order.side,
                                  Limit, opposite_order.price, opposite_order.qty))
            b3 == with_opposite_queue(b2, side, pop(opposite_queue(b2, side)).q)
        IN [bk |-> b3, complete |-> FALSE]
    ELSE
        LET b1 == push(b0, Filled(order_id, side, order_type, opposite_order.price, qty))
            b2 == push(b1, Filled(opposite_order.order_id, opposite_order.side,
                                  Limit, opposite_order.price, qty))
            b3 == with_opposite_queue(b2, side, pop(opposite_queue(b2, side)).q)
        IN [bk |-> b3, complete |-> TRUE]

\* variant: an id that is already live on the own side is overwritten
store_new_limit_order_overwrites(bk, order_id, order_asset, price_asset, side, price, qty, ts) ==
    LET q == order_queue(bk, side)
        order == Order(order_id, order_asset, price_asset, side, price, qty)
        r == IF order_id \in DOMAIN q.orders THEN amend(q, order_id, price, ts, order)
             ELSE insert(q, order_id, price, ts, order)
    IN with_order_queue(bk, side, r.q)

\* store_new_limit_order: insert on the own side, DuplicateOrderID on refusal
store_new_limit_order(bk, order_id, order_asset, price_asset, side, price, qty, ts) ==
    LET r == insert(order_queue(bk, side), order_id, price, ts,
                    Order(order_id, order_asset, price_asset, side, price, qty))
    IN IF ~r.ok THEN push(with_order_queue(bk, side, r.q), DuplicateOrderID(order_id))
       ELSE with_order_queue(bk, side, r.q)

\* variant: the recursion goes on with the whole quantity
market_rest_not_reduced(qty, opposite_order) == qty

\* qty - opposite_order.qty, the quantity a market order recurses with
market_rest(qty, opposite_order) == qty - opposite_order.qty

\* variant: a market order that finds no opposite order is stored on its own side
no_limit_orders_found_rests(bk, order_id, order_asset, price_asset, side, qty) ==
    LET r == insert(order_queue(bk, side), order_id, 1, 1,
                    Order(order_id, order_asset, price_asset, side, 1, qty))
    IN push(with_order_queue(bk, side, r.q), NoMatch(order_id))

\* the else branch of process_market_order: no limit orders found
no_limit_orders_found(bk, order_id, order_asset, price_asset, side, qty) ==
    push(bk, NoMatch(order_id))

RECURSIVE process_market_order(_, _, _, _, _, _)
process_market_order(bk, order_id, order_asset, price_asset, side, qty) ==
    LET pk == peek(opposite_queue(bk, side))
        b0 == with_opposite_queue(bk, side, pk.q)
        opposite_order == pk.order
    IN
    IF opposite_order # NoOrder THEN
        LET m == order_matching(b0, opposite_order, order_id, order_asset, price_asset,
                                Market, side, qty)
        IN IF ~m.complete
           THEN process_market_order(m.bk, order_id, order_asset, price_asset, side,
                                     market_rest(qty, opposite_order))
           ELSE m.bk
    ELSE no_limit_orders_found(b0, order_id, order_asset, price_asset, side, qty)

\* variant: every limit order is matched, whatever its price
could_be_matched_always(side, price, opposite_order) == TRUE

\* variant: a limit order at exactly the opposite best price does not cross
could_be_matched_strict(side, price, opposite_order) ==
    IF side = Bid THEN price > opposite_order.price ELSE price < opposite_order.price

\* verify bid/ask price overlap
could_be_matched(side, price, opposite_order) ==
    IF side = Bid THEN price >= opposite_order.price ELSE price <= opposite_order.price

\* variant: the recursion goes on with the whole quantity
limit_rest_not_reduced(qty, opposite_order) == qty

\* qty - opposite_order.qty, the quantity a limit order recurses with
limit_rest(qty, opposite_order) == qty - opposite_order.qty

RECURSIVE process_limit_order(_, _, _, _, _, _, _, _)
process_limit_order(bk, order_id, order_asset, price_asset, side, price, qty, ts) ==
    LET pk == peek(opposite_queue(bk, side))
        b0 == with_opposite_queue(bk, side, pk.q)
        opposite_order == pk.order
    IN
    IF opposite_order # NoOrder THEN
        IF could_be_matched(side, price, opposite_order) THEN
            LET m == order_matching(b0, opposite_order, order_id, order_asset, price_asset,
                                    Limit, side, qty)
            IN IF ~m.complete
               THEN process_limit_order(m.bk, order_id, order_asset, price_asset, side,
                                        price, limit_rest(qty, opposite_order), ts)
               ELSE m.bk
        ELSE store_new_limit_order(b0, order_id, order_asset, price_asset, side, price, qty, ts)
    ELSE store_new_limit_order(b0, order_id, order_asset, price_asset, side, price, qty, ts)

\* variant: an amended order whose new price overlaps the opposite best is
\* matched against it at once
process_order_amend_rematches(bk, order_id, side, price, qty, ts) ==
    LET r == amend(order_queue(bk, side), order_id, price, ts,
                   Order(order_id, orderbook_order_asset, orderbook_price_asset,
                         side, price, qty))
        b1 == push(with_order_queue(bk, side, r.q), Amended(order_id, price, qty))
        pk == peek(opposite_queue(b1, side))
    IN IF ~r.ok THEN push(with_order_queue(bk, side, r.q), OrderNotFound(order_id))
       ELSE IF pk.order # NoOrder /\ could_be_matched(side, price, pk.order)
       THEN order_matching(with_opposite_queue(b1, side, pk.q), pk.order, order_id,
                           orderbook_order_asset, orderbook_price_asset, Limit, side,
                           qty).bk
       ELSE b1

\* variant: an id that is not live on the given side is amended on the other side
process_order_amend_either_side(bk, order_id, side, price, qty, ts) ==
    LET other == IF side = Bid THEN Ask ELSE Bid
        found == IF order_id \in DOMAIN order_queue(bk, side).orders THEN side ELSE other
        r == amend(order_queue(bk, found), order_id, price, ts,
                   Order(order_id, orderbook_order_asset, orderbook_price_asset,
                         found, price, qty))
    IN IF r.ok THEN push(with_order_queue(bk, found, r.q), Amended(order_id, price, qty))
       ELSE push(with_order_queue(bk, found, r.q), OrderNotFound(order_id))

\* variant: the amended order keeps the quantity it had
process_order_amend_keeps_qty(bk, order_id, side, price, qty, ts) ==
    LET q == order_queue(bk, side)
        old_qty == IF order_id \in DOMAIN q.orders THEN q.orders[order_id].qty ELSE qty
        r == amend(q, order_id, price, ts,
                   Order(order_id, orderbook_order_asset, orderbook_price_asset,
                         side, price, old_qty))
    IN IF r.ok THEN push(with_order_queue(bk, side, r.q), Amended(order_id, price, qty))
       ELSE push(with_order_queue(bk, side, r.q), OrderNotFound(order_id))

\* variant: an amend keeps the timestamp the order had
process_order_amend_keeps_ts(bk, order_id, side, price, qty, ts) ==
    LET q == order_queue(bk, side)
        old_ts == IF order_id \in DOMAIN q.orders THEN q.prio[order_id][2] ELSE ts
        r == amend(q, order_id, price, old_ts,
                   Order(order_id, orderbook_order_asset, orderbook_price_asset,
                         side, price, qty))
    IN IF r.ok THEN push(with_order_queue(bk, side, r.q), Amended(order_id, price, qty))
       ELSE push(with_order_queue(bk, side, r.q), OrderNotFound(order_id))

process_order_amend(bk, order_id, side, price, qty, ts) ==
    LET r == amend(order_queue(bk, side), order_id, price, ts,
                   Order(order_id, orderbook_order_asset, orderbook_price_asset,
                         side, price, qty))
    IN IF r.ok THEN push(with_order_queue(bk, side, r.q), Amended(order_id, price, qty))
       ELSE push(with_order_queue(bk, side, r.q), OrderNotFound(order_id))

\* variant: Cancelled is reported but the order is left in its queue
process_order_cancel_keeps_order(bk, order_id, side) ==
    IF order_id \in DOMAIN order_queue(bk, side).orders
    THEN push(bk, Cancelled(order_id))
    ELSE push(bk, OrderNotFound(order_id))

process_order_cancel(bk, order_id, side) ==
    LET r == cancel(order_queue(bk, side), order_id)
    IN IF r.ok THEN push(with_order_queue(bk, side, r.q), Cancelled(order_id))
       ELSE push(with_order_queue(bk, side, r.q), OrderNotFound(order_id))

\* process_order: validate, then dispatch on the request variant
process_order_result(bk, order) ==
    IF validate(order) # ValidationOk THEN push(bk, ValidationFailed(validate(order)))
    ELSE CASE order.kind = "NewMarketOrder" ->
                process_market_order(
                    push(bk, Accepted(order.order_id, order.order_asset, Market,
                                      order.price_asset, NoPrice, order.qty, order.side)),
                    order.order_id, order.order_asset, order.price_asset, order.side,
                    order.qty)
           [] order.kind = "NewLimitOrder" ->
                process_limit_order(
                    push(bk, Accepted(order.order_id, order.order_asset, Limit,
                                      order.price_asset, order.price, order.qty, order.side)),
                    order.order_id, order.order_asset, order.price_asset, order.side,
                    order.price, order.qty, order.ts)
           [] order.kind = "AmendOrder" ->
                process_order_amend(bk, order.id, order.side, order.price, order.qty, order.ts)
           [] order.kind = "CancelOrder" ->
                process_order_cancel(bk, order.id, order.side)

\* variant: the best orders are popped, not peeked
current_spread_result_pops(bk) ==
    LET pb == pop(bk.bid_queue) IN
    IF pb.order = NoOrder
    THEN [bk EXCEPT !.bid_queue = pb.q]
    ELSE LET pa == pop(bk.ask_queue) IN
         IF pa.order = NoOrder
         THEN [bk EXCEPT !.bid_queue = pb.q, !.ask_queue = pa.q]
         ELSE [bk EXCEPT !.bid_queue = pb.q, !.ask_queue = pa.q,
                         !.spread = <<pb.order.price, pa.order.price>>]

\* current_spread: peek both sides (the ask side only when a bid exists)
current_spread_result(bk) ==
    LET pb == peek(bk.bid_queue) IN
    IF pb.order = NoOrder
    THEN [bk EXCEPT !.bid_queue = pb.q]
    ELSE LET pa == peek(bk.ask_queue) IN
         IF pa.order = NoOrder
         THEN [bk EXCEPT !.bid_queue = pb.q, !.ask_queue = pa.q]
         ELSE [bk EXCEPT !.bid_queue = pb.q, !.ask_queue = pa.q,
                         !.spread = <<pb.order.price, pa.order.price>>]

(***************************************************************************)
(* State                                                                   *)
(***************************************************************************)
VARIABLES
    book,        \* the Orderbook, with the results of the last call
    prev,        \* the Orderbook as the last call found it
    request,     \* the argument of the last call
    ncalls       \* number of calls made so far

vars == <<book, prev, request, ncalls>>

bid_queue == book.bid_queue
ask_queue == book.ask_queue
\* the OrderProcessingResult the last process_order returned
result == book.results
\* the order_matching calls made by the last process_order
matches == book.matches
\* the value the last current_spread returned
spread == book.spread
prev_bid == prev.bid_queue
prev_ask == prev.ask_queue

NoRequest == [kind |-> "None"]
SpreadRequest == [kind |-> "CurrentSpread"]

Ids == 1..NumIds
Prices == 0..MaxPrice
Qtys == 0..MaxQty
Timestamps == 1..MaxTs

Init ==
    /\ book = Orderbook_new
    /\ prev = Orderbook_new
    /\ request = NoRequest
    /\ ncalls = 0

\* the orderbook at the start of a call: nothing returned yet
at_call(bk) == [bk EXCEPT !.results = <<>>, !.matches = <<>>, !.spread = <<>>]

\* one call of Orderbook::process_order
process_order(order) ==
    /\ book' = process_order_result(at_call(book), order)
    /\ prev' = at_call(book)
    /\ request' = order
    /\ ncalls' = ncalls + 1

\* one call of Orderbook::current_spread
current_spread ==
    /\ ncalls < MaxCalls
    /\ book' = current_spread_result(at_call(book))
    /\ prev' = at_call(book)
    /\ request' = SpreadRequest
    /\ ncalls' = ncalls + 1

(***************************************************************************)
(* Spec: the callers of the repository (bin/example.rs, the tests) build   *)
(* requests for the orderbook's own asset pair with positive prices and    *)
(* quantities and non-nil ids; such requests pass the validator.           *)
(***************************************************************************)
NewMarketOrder ==
    /\ ncalls < MaxCalls
    /\ \E order_id \in Ids, side \in OrderSide, qty \in 1..MaxQty :
          process_order(NewMarketOrderRequest(order_id, BTC, USD, side, qty, 1))

NewLimitOrder ==
    /\ ncalls < MaxCalls
    /\ \E order_id \in Ids, side \in OrderSide, price \in 1..MaxPrice, qty \in 1..MaxQty,
          ts \in Timestamps :
          process_order(NewLimitOrderRequest(order_id, BTC, USD, side, price, qty, ts))

AmendOrder ==
    /\ ncalls < MaxCalls
    /\ \E id \in Ids, side \in OrderSide, price \in 1..MaxPrice, qty \in 1..MaxQty,
          ts \in Timestamps :
          process_order(AmendOrderRequest(id, side, price, qty, ts))

CancelOrder ==
    /\ ncalls < MaxCalls
    /\ \E id \in Ids, side \in OrderSide :
          process_order(CancelOrderRequest(id, side))

Next ==
    \/ NewMarketOrder
    \/ NewLimitOrder
    \/ AmendOrder
    \/ CancelOrder
    \/ current_spread

Spec == Init /\ [][Next]_vars

(***************************************************************************)
(* SpecRaw: arbitrary requests, including the ones the validator rejects   *)
(* (foreign assets, zero price or quantity, the nil id).  The timestamp is *)
(* not read by the validator.                                              *)
(***************************************************************************)
RawNewMarketOrder ==
    /\ ncalls < MaxRawCalls
    /\ \E order_id \in {NilId} \cup Ids, order_asset \in Asset, price_asset \in Asset,
          side \in OrderSide, qty \in Qtys :
          process_order(NewMarketOrderRequest(order_id, order_asset, price_asset, side, qty, 1))

RawNewLimitOrder ==
    /\ ncalls < MaxRawCalls
    /\ \E order_id \in {NilId} \cup Ids, order_asset \in Asset, price_asset \in Asset,
          side \in OrderSide, price \in Prices, qty \in Qtys :
          process_order(NewLimitOrderRequest(order_id, order_asset, price_asset, side,
                                             price, qty, 1))

RawAmendOrder ==
    /\ ncalls < MaxRawCalls
    /\ \E id \in {NilId} \cup Ids, side \in OrderSide, price \in Prices, qty \in Qtys :
          process_order(AmendOrderRequest(id, side, price, qty, 1))

RawCancelOrder ==
    /\ ncalls < MaxRawCalls
    /\ \E id \in {NilId} \cup Ids, side \in OrderSide :
          process_order(CancelOrderRequest(id, side))

NextRaw ==
    \/ RawNewMarketOrder
    \/ RawNewLimitOrder
    \/ RawAmendOrder
    \/ RawCancelOrder

SpecRaw == Init /\ [][NextRaw]_vars

(***************************************************************************)
(* SpecClock: requests built the way the constructors of orders.rs and     *)
(* their callers build them: new_market_order_request and                  *)
(* new_limit_order_request draw a fresh id (Uuid::new_v4()), and every     *)
(* request is stamped with SystemTime::now(), which grows from call to     *)
(* call.  Amend and cancel requests name any id, issued or not.            *)
(***************************************************************************)
\* Uuid::new_v4(): an id no earlier request was given
Uuid_new_v4 == ncalls + 1
\* SystemTime::now() at the time the request is built
SystemTime_now == ncalls + 1

ClockIds == 1..MaxClockCalls

ClockNewMarketOrder ==
    /\ ncalls < MaxClockCalls
    /\ \E side \in OrderSide, qty \in 1..MaxQty :
          process_order(NewMarketOrderRequest(Uuid_new_v4, BTC, USD, side, qty,
                                              SystemTime_now))

ClockNewLimitOrder ==
    /\ ncalls < MaxClockCalls
    /\ \E side \in OrderSide, price \in 1..MaxPrice, qty \in 1..MaxQty :
          process_order(NewLimitOrderRequest(Uuid_new_v4, BTC, USD, side, price, qty,
                                             SystemTime_now))

ClockAmendOrder ==
    /\ ncalls < MaxClockCalls
    /\ \E id \in ClockIds, side \in OrderSide, price \in 1..MaxPrice, qty \in 1..MaxQty :
          process_order(AmendOrderRequest(id, side, price, qty, SystemTime_now))

ClockCancelOrder ==
    /\ ncalls < MaxClockCalls
    /\ \E id \in ClockIds, side \in OrderSide :
          process_order(CancelOrderRequest(id, side))

ClockCurrentSpread ==
    /\ ncalls < MaxClockCalls
    /\ book' = current_spread_result(at_call(book))
    /\ prev' = at_call(book)
    /\ request' = SpreadRequest
    /\ ncalls' = ncalls + 1

NextClock ==
    \/ ClockNewMarketOrder
    \/ ClockNewLimitOrder
    \/ ClockAmendOrder
    \/ ClockCancelOrder
    \/ ClockCurrentSpread

SpecClock == Init /\ [][NextClock]_vars

(***************************************************************************)
(* SpecList: the requests of test request_list on a fresh (BTC, USD)       *)
(* orderbook.  Each request of the list is built once, with its own fresh  *)
(* id and the time of its construction; the caller submits requests of the *)
(* list and reads current_spread after each, as the loop of the test does. *)
(* Quantities are in units of 0.0001 and prices in units of 0.01, the two  *)
(* long prices cut to that unit: the engine compares and copies prices and *)
(* never computes with them, and the cut keeps all prices of the list      *)
(* distinct and in their order.                                            *)
(***************************************************************************)
request_list ==
    << NewLimitOrderRequest(1, BTC, USD, Bid, 4171176, 1500, 1),
       NewLimitOrderRequest(2, BTC, USD, Ask, 4171260, 10223, 2),
       NewLimitOrderRequest(3, BTC, USD, Bid, 101, 4000, 3),
       NewLimitOrderRequest(4, BTC, USD, Ask, 103, 5000, 4),
       NewMarketOrderRequest(5, BTC, USD, Bid, 9000, 5),
       NewLimitOrderRequest(6, BTC, USD, Ask, 105, 5000, 6),
       NewLimitOrderRequest(7, BTC, USD, Bid, 106, 6000, 7) >>

\* one turn of the loop: process_order(order), then current_spread()
request_list_step ==
    /\ ncalls < MaxListCalls
    /\ \E k \in 1..Len(request_list) :
          /\ book' = current_spread_result(
                         process_order_result(at_call(book), request_list[k]))
          /\ prev' = at_call(book)
          /\ request' = request_list[k]
          /\ ncalls' = ncalls + 1

NextList == request_list_step

SpecList == Init /\ [][NextList]_vars

(***************************************************************************)
(* SpecStall: a caller that keeps amending, cancelling and re-entering one *)
(* order (id 1) on one side of the book while a second order (id 2) rests  *)
(* on that side; requests are stamped with SystemTime::now().  The         *)
(* behaviours are long enough for a queue to collect more than             *)
(* MAX_STALLED_INDICES_IN_QUEUE orphaned heap entries.                     *)
(***************************************************************************)
\* the side the caller works on: the one whose heap holds entries
StallSides ==
    IF bid_queue.heap # <<>> THEN {Bid}
    ELSE IF ask_queue.heap # <<>> THEN {Ask}
    ELSE OrderSide

StallNewLimitOrder ==
    /\ ncalls < MaxStallCalls
    /\ \E order_id \in 1..2, side \in StallSides :
          process_order(NewLimitOrderRequest(order_id, BTC, USD, side, 1, 1,
                                             SystemTime_now))

StallAmendOrder ==
    /\ ncalls < MaxStallCalls
    /\ \E side \in StallSides :
          process_order(AmendOrderRequest(1, side, 1, 1, SystemTime_now))

StallCancelOrder ==
    /\ ncalls < MaxStallCalls
    /\ \E side \in StallSides :
          process_order(CancelOrderRequest(1, side))

NextStall ==
    \/ StallNewLimitOrder
    \/ StallAmendOrder
    \/ StallCancelOrder

SpecStall == Init /\ [][NextStall]_vars

(***************************************************************************)
\* the live orders of a queue with their priorities
LiveView(q) == [orders |-> q.orders, prio |-> q.prio]

LiveIds(q) == DOMAIN q.orders

RECURSIVE SumQty(_, _)
SumQty(orders, ids) ==
    IF ids = {} THEN 0
    ELSE LET id == CHOOSE x \in ids : TRUE
         IN orders[id].qty + SumQty(orders, ids \ {id})

\* total remaining quantity of the live orders of a queue
TotalQty(q) == SumQty(q.orders, DOMAIN q.orders)

\* best live price of a non-empty queue, read from the id -> Order map
BestPrice(q) ==
    CHOOSE p \in {q.orders[id].price : id \in LiveIds(q)} :
        \A id \in LiveIds(q) :
            IF q.queue_side = Bid THEN q.orders[id].price <= p ELSE q.orders[id].price >= p

IsNewOrder == request.kind \in {"NewMarketOrder", "NewLimitOrder"}
Validated == request.kind \in {"NewMarketOrder", "NewLimitOrder", "AmendOrder", "CancelOrder"}
                 /\ validate(request) = ValidationOk

\* own and opposite queue of the last request, before and after the call
OwnBefore == IF request.side = Bid THEN prev_bid ELSE prev_ask
OwnAfter == IF request.side = Bid THEN bid_queue ELSE ask_queue
OppBefore == IF request.side = Bid THEN prev_ask ELSE prev_bid
OppAfter == IF request.side = Bid THEN ask_queue ELSE bid_queue

IsTrade(e) == e.type \in {"Filled", "PartiallyFilled"}
TradeEvents == SelectSeq(result, IsTrade)
NumTrades == Len(TradeEvents) \div 2
\* the k-th trade of the result: the event reported first and the one reported second
FirstOf(k) == TradeEvents[2 * k - 1]
SecondOf(k) == TradeEvents[2 * k]

RECURSIVE SumFirst(_)
SumFirst(k) == IF k = 0 THEN 0 ELSE FirstOf(k).qty + SumFirst(k - 1)
\* quantity traded by the last request as its result reports it
Traded == SumFirst(NumTrades)

HasEvent(t) == \E i \in 1..Len(result) : result[i].type = t

\* quantity of the last request that came to rest on its own side
Rested ==
    IF request.kind = "NewLimitOrder"
       /\ request.order_id \in LiveIds(OwnAfter) \ LiveIds(OwnBefore)
    THEN OwnAfter.orders[request.order_id].qty
    ELSE 0

(***************************************************************************)
(* Properties                                                              *)
(***************************************************************************)

\* C1: after every process_order call no order id is live in both the bid
\* queue and the ask queue, and every live order is held once, under its id.
C1_UniqueId ==
    /\ LiveIds(bid_queue) \cap LiveIds(ask_queue) = {}
    /\ \A id \in LiveIds(bid_queue) : bid_queue.orders[id].order_id = id
    /\ \A id \in LiveIds(ask_queue) : ask_queue.orders[id].order_id = id

\* C2: after every process_order call, when both queues are non-empty the
\* best bid price is strictly below the best ask price.
C2_NeverCrossed ==
    (LiveIds(bid_queue) # {} /\ LiveIds(ask_queue) # {})
        => BestPrice(bid_queue) < BestPrice(ask_queue)

\* C3 as stated: for every intent, the traded quantity reported in the result
\* equals the decrease of the total live quantity plus the residual that rests.
C3_ConservationEveryIntent ==
    Validated =>
        Traded = (TotalQty(prev_bid) + TotalQty(prev_ask))
                 - (TotalQty(bid_queue) + TotalQty(ask_queue)) + Rested

\* C3 (amended): for every NewMarketOrder and NewLimitOrder, the traded
\* quantity reported in the result equals the decrease of the total live
\* quantity plus the residual of the order that comes to rest.
C3_ConservationNewOrders ==
    (Validated /\ IsNewOrder) =>
        Traded = (TotalQty(prev_bid) + TotalQty(prev_ask))
                 - (TotalQty(bid_queue) + TotalQty(ask_queue)) + Rested

\* a limit order traded part of its quantity and the rest came to rest
C3_Witness ==
    /\ Validated /\ request.kind = "NewLimitOrder"
    /\ Traded > 0 /\ Rested > 0
    /\ TotalQty(prev_bid) + TotalQty(prev_ask) > Traded

\* the priority (price, ts) a queue holds for a live id, as a heap key
PrioOf(q, id) == [price |-> q.prio[id][1], ts |-> q.prio[id][2]]

\* the id has the best (price, ts) among the given live ids of the queue
IsBestAmong(q, id, ids) ==
    /\ id \in ids
    /\ \A o \in ids : ~Better(q.queue_side, PrioOf(q, o), PrioOf(q, id))

\* the opposite orders still live when the k-th trade of the result was made
LiveAtTrade(k) == LiveIds(OppBefore) \ {SecondOf(j).order_id : j \in 1..(k - 1)}

\* the last trade of the result left its maker partially filled
LastMakerPartial ==
    /\ Validated /\ IsNewOrder /\ NumTrades > 0
    /\ SecondOf(NumTrades).type = "PartiallyFilled"

LastMaker == SecondOf(NumTrades).order_id

C4_EveryCall ==
    (Validated /\ IsNewOrder) =>
        /\ \A k \in 1..NumTrades : IsBestAmong(OppBefore, SecondOf(k).order_id, LiveAtTrade(k))
        /\ LastMakerPartial =>
              /\ IsBestAmong(OppAfter, LastMaker, LiveIds(OppAfter))
              /\ OppAfter.prio[LastMaker] = OppBefore.prio[LastMaker]

C4_NextCall ==
    (/\ LastMakerPartial
     /\ request'.kind \in {"NewMarketOrder", "NewLimitOrder"}
     /\ request'.side = request.side
     /\ NumTrades' > 0)
        => SecondOf(1)'.order_id = LastMaker

\* C4: at every match step the maker is the live opposite order with the best
\* price, ties broken by the earliest timestamp; a maker that was partially
\* filled keeps its priority and is the first maker of the next aggressor.
C4_PriceTimePriority == [][C4_EveryCall' /\ C4_NextCall]_vars

\* one aggressor traded with two makers of different priority
C4_Witness ==
    /\ Validated /\ IsNewOrder /\ NumTrades = 2
    /\ OppBefore.prio[SecondOf(1).order_id] # OppBefore.prio[SecondOf(2).order_id]

\* C5: both events of a trade carry the maker's price, and for a limit
\* aggressor that price is no worse than its limit.
C5_TradeAtMakerPrice ==
    (Validated /\ IsNewOrder) =>
        \A k \in 1..NumTrades :
            LET maker == SecondOf(k).order_id IN
            /\ maker \in LiveIds(OppBefore)
            /\ FirstOf(k).price = OppBefore.orders[maker].price
            /\ SecondOf(k).price = OppBefore.orders[maker].price
            /\ request.kind = "NewLimitOrder" =>
                  IF request.side = Bid THEN FirstOf(k).price <= request.price
                  ELSE FirstOf(k).price >= request.price

\* a limit order traded at a maker price strictly better than its limit
C5_Witness ==
    /\ Validated /\ request.kind = "NewLimitOrder" /\ NumTrades > 0
    /\ FirstOf(1).price # request.price

\* C6: the result of a validated new order starts with Accepted for its id,
\* and the trade events follow in consecutive pairs, the aggressor's event
\* then the maker's, both with the same price and quantity.
C6_AcceptedThenPairs ==
    (Validated /\ IsNewOrder) =>
        /\ Len(result) >= 1
        /\ result[1].type = "Accepted" /\ result[1].order_id = request.order_id
        /\ Len(TradeEvents) = 2 * NumTrades
        /\ \A i \in 1..Len(result) : IsTrade(result[i]) <=> i \in 2..(2 * NumTrades + 1)
        /\ \A k \in 1..NumTrades :
              /\ FirstOf(k).order_id = request.order_id
              /\ FirstOf(k).side = request.side
              /\ FirstOf(k).order_type =
                     (IF request.kind = "NewMarketOrder" THEN Market ELSE Limit)
              /\ SecondOf(k).order_id \in LiveIds(OppBefore)
              /\ SecondOf(k).side # request.side
              /\ SecondOf(k).order_type = Limit
              /\ FirstOf(k).price = SecondOf(k).price
              /\ FirstOf(k).qty = SecondOf(k).qty

\* a result with two trades
C6_Witness ==
    /\ Validated /\ IsNewOrder /\ Len(result) >= 5
    /\ IsTrade(result[2]) /\ IsTrade(result[5])

\* the rules of the validator, as the request kinds state them
Rejected ==
    \/ /\ request.kind = "NewMarketOrder"
       /\ (request.order_asset # BTC \/ request.price_asset # USD \/ request.qty <= 0)
    \/ /\ request.kind = "NewLimitOrder"
       /\ (request.order_asset # BTC \/ request.price_asset # USD
           \/ request.price <= 0 \/ request.qty <= 0)
    \/ /\ request.kind = "AmendOrder"
       /\ (request.id = NilId \/ request.price <= 0 \/ request.qty <= 0)
    \/ /\ request.kind = "CancelOrder" /\ request.id = NilId

\* C7: a rejected intent returns exactly one event, ValidationFailed, and
\* both queues are exactly as before the call.
C7_RejectionLeavesBook ==
    Rejected =>
        /\ Len(result) = 1
        /\ result[1].type = "ValidationFailed"
        /\ result[1].reason \in {ERR_BAD_ORDER_ASSET, ERR_BAD_PRICE_ASSET,
               ERR_BAD_PRICE_VALUE, ERR_BAD_QUANTITY_VALUE, ERR_BAD_ORDER_ID}
        /\ bid_queue = prev_bid
        /\ ask_queue = prev_ask

\* a cancel with the nil id was rejected on a book that holds an order
C7_Witness ==
    /\ request.kind = "CancelOrder" /\ request.id = NilId
    /\ result = <<ValidationFailed(ERR_BAD_ORDER_ID)>>
    /\ LiveIds(bid_queue) \cup LiveIds(ask_queue) # {}

\* C8: whenever the result of a NewLimitOrder contains DuplicateOrderID, both
\* queues hold the live orders they held before the call.
C8_DuplicateLeavesBook ==
    (request.kind = "NewLimitOrder" /\ HasEvent("DuplicateOrderID")) =>
        /\ LiveView(bid_queue) = LiveView(prev_bid)
        /\ LiveView(ask_queue) = LiveView(prev_ask)

\* C9: a validated market order never rests: its own side is untouched and
\* no id became live in either queue.
C9_MarketNeverRests ==
    (Validated /\ request.kind = "NewMarketOrder") =>
        /\ OwnAfter = OwnBefore
        /\ LiveIds(OppAfter) \subseteq LiveIds(OppBefore)
        /\ request.order_id \in LiveIds(bid_queue) => request.order_id \in LiveIds(prev_bid)
        /\ request.order_id \in LiveIds(ask_queue) => request.order_id \in LiveIds(prev_ask)

\* a market order was left with unfilled quantity after trading
C9_Witness ==
    /\ Validated /\ request.kind = "NewMarketOrder"
    /\ NumTrades > 0 /\ Traded < request.qty

NoMatchCount == Cardinality({i \in 1..Len(result) : result[i].type = "NoMatch"})

\* C10: for a validated market order of quantity q against an opposite side
\* of total live quantity L, NoMatch(id) appears iff q > L, then exactly once
\* and last; on an empty opposite side the result is [Accepted, NoMatch(id)]
\* and the book is unchanged.
C10_NoMatchIffUnfilled ==
    (Validated /\ request.kind = "NewMarketOrder") =>
        /\ HasEvent("NoMatch") <=> request.qty > TotalQty(OppBefore)
        /\ HasEvent("NoMatch") =>
              /\ NoMatchCount = 1
              /\ result[Len(result)] = NoMatch(request.order_id)
        /\ LiveIds(OppBefore) = {} =>
              /\ Len(result) = 2
              /\ result[1].type = "Accepted"
              /\ result[2] = NoMatch(request.order_id)
              /\ LiveView(bid_queue) = LiveView(prev_bid)
              /\ LiveView(ask_queue) = LiveView(prev_ask)

\* a market order emptied a non-empty opposite side and then found no match
C10_Witness ==
    /\ Validated /\ request.kind = "NewMarketOrder"
    /\ NumTrades > 0 /\ HasEvent("NoMatch")
    /\ LiveIds(OppAfter) = {}

\* the last request names an id that is live in neither queue
FreshId == request.order_id \notin LiveIds(prev_bid) \cup LiveIds(prev_ask)

\* the opposite queue held an order and the limit price overlaps its best price
OverlapsBefore ==
    /\ LiveIds(OppBefore) # {}
    /\ IF request.side = Bid THEN request.price >= BestPrice(OppBefore)
       ELSE request.price <= BestPrice(OppBefore)

\* the order of the last NewLimitOrder request with the given quantity
RequestOrder(qty) ==
    Order(request.order_id, request.order_asset, request.price_asset, request.side,
          request.price, qty)

\* the live orders of the own side other than the request's are as before the call
OthersUntouched ==
    /\ LiveIds(OwnAfter) \ {request.order_id} = LiveIds(OwnBefore) \ {request.order_id}
    /\ \A o \in LiveIds(OwnBefore) \ {request.order_id} :
          /\ OwnAfter.orders[o] = OwnBefore.orders[o]
          /\ OwnAfter.prio[o] = OwnBefore.prio[o]

\* C11: a validated NewLimitOrder trades iff the opposite queue is non-empty
\* and its price overlaps the opposite best (equality included); otherwise,
\* with a fresh id, the result is exactly [Accepted], the order rests on its
\* own side and the opposite queue is unchanged.
C11_TradesIffOverlap ==
    (Validated /\ request.kind = "NewLimitOrder") =>
        /\ NumTrades > 0 <=> OverlapsBefore
        /\ (~OverlapsBefore /\ FreshId) =>
              /\ result = <<Accepted(request.order_id, request.order_asset, Limit,
                                     request.price_asset, request.price, request.qty,
                                     request.side)>>
              /\ request.order_id \in LiveIds(OwnAfter)
              /\ OwnAfter.orders[request.order_id] = RequestOrder(request.qty)
              /\ OwnAfter.prio[request.order_id] = <<request.price, request.ts>>
              /\ OthersUntouched
              /\ LiveView(OppAfter) = LiveView(OppBefore)

\* a limit order priced exactly at the opposite best traded
C11_Witness ==
    /\ Validated /\ request.kind = "NewLimitOrder"
    /\ LiveIds(OppBefore) # {}
    /\ request.price = BestPrice(OppBefore)
    /\ NumTrades > 0

\* after the call the opposite queue holds an order the limit price overlaps
OverlapsAfter ==
    /\ LiveIds(OppAfter) # {}
    /\ IF request.side = Bid THEN request.price >= BestPrice(OppAfter)
       ELSE request.price <= BestPrice(OppAfter)

\* C12: for a validated NewLimitOrder with a fresh id, quantity q and traded
\* quantity t: if t < q the order is live on its own side at its limit price
\* with quantity q - t and the opposite best no longer overlaps (or the
\* opposite side is empty); if t = q the id is not live afterwards.
C12_LimitResidual ==
    (Validated /\ request.kind = "NewLimitOrder" /\ FreshId) =>
        /\ Traded <= request.qty
        /\ Traded < request.qty =>
              /\ request.order_id \in LiveIds(OwnAfter)
              /\ OwnAfter.orders[request.order_id] = RequestOrder(request.qty - Traded)
              /\ OwnAfter.prio[request.order_id] = <<request.price, request.ts>>
              /\ request.order_id \notin LiveIds(OppAfter)
              /\ ~OverlapsAfter
        /\ Traded = request.qty =>
              request.order_id \notin LiveIds(bid_queue) \cup LiveIds(ask_queue)

\* a limit order traded part of its quantity, then met an opposite best that
\* does not overlap its price, and rests with the remainder
C12_Witness ==
    /\ Validated /\ request.kind = "NewLimitOrder" /\ FreshId
    /\ Traded > 0 /\ Traded < request.qty
    /\ LiveIds(OppAfter) # {}
    /\ request.order_id \in LiveIds(OwnAfter)

\* the last request was a validated CancelOrder of an order live on the side it names
CancelOfLive ==
    /\ Validated /\ request.kind = "CancelOrder"
    /\ request.id \in LiveIds(OwnBefore)

C13_FirstCancel ==
    CancelOfLive =>
        /\ result = <<Cancelled(request.id)>>
        /\ LiveIds(OwnAfter) = LiveIds(OwnBefore) \ {request.id}
        /\ LiveView(OppAfter) = LiveView(OppBefore)

C13_SecondCancel ==
    (CancelOfLive /\ request' = request) =>
        /\ result' = <<OrderNotFound(request.id)>>
        /\ bid_queue' = bid_queue
        /\ ask_queue' = ask_queue

\* C13: cancelling a live order with its side returns exactly [Cancelled(id)]
\* and removes it from the live set; the same CancelOrder repeated right after
\* returns exactly [OrderNotFound(id)] and leaves the book unchanged.
C13_CancelTwice == [][C13_FirstCancel' /\ C13_SecondCancel]_vars

\* a CancelOrder found its id among the cancelled entries of the side it names
C13_Witness ==
    /\ Validated /\ request.kind = "CancelOrder"
    /\ request.id \in OwnBefore.stalled
    /\ request.id \notin LiveIds(OwnBefore)
    /\ result = <<OrderNotFound(request.id)>>

\* the last request was a validated cancel or amend that names the side on
\* which its id is not live, while the id is live on the other side
WrongSide ==
    /\ Validated /\ request.kind \in {"CancelOrder", "AmendOrder"}
    /\ request.id \notin LiveIds(OwnBefore)
    /\ request.id \in LiveIds(OppBefore)

\* C14: a CancelOrder or AmendOrder that names the wrong side for an id live
\* on the other side returns exactly [OrderNotFound(id)], and the order stays
\* live with the same price, quantity and priority on its actual side.
C14_WrongSideNotFound ==
    WrongSide =>
        /\ result = <<OrderNotFound(request.id)>>
        /\ OppAfter = OppBefore
        /\ OppAfter.orders[request.id] = OppBefore.orders[request.id]
        /\ OppAfter.prio[request.id] = OppBefore.prio[request.id]
        /\ LiveView(OwnAfter) = LiveView(OwnBefore)

\* an amend with other values named the wrong side of a live order
C14_Witness ==
    /\ WrongSide /\ request.kind = "AmendOrder"
    /\ request.price # OppBefore.orders[request.id].price
    /\ request.qty # OppBefore.orders[request.id].qty
    /\ request.id \in LiveIds(OppAfter)

\* the last request was a validated AmendOrder of an order live on the side it names
AmendOfLive ==
    /\ Validated /\ request.kind = "AmendOrder"
    /\ request.id \in LiveIds(OwnBefore)

\* the amended id has a strictly better priority than every other live order of its side
AmendedIsBest ==
    \A o \in LiveIds(OwnAfter) \ {request.id} :
        Better(request.side, PrioOf(OwnAfter, request.id), PrioOf(OwnAfter, o))

\* C15: a validated AmendOrder of an id live on the given side returns exactly
\* [Amended(id, price, qty)] with the requested values; afterwards the live
\* order of the id has that price and quantity, peek of the side returns it
\* when it is the best order, and no other live order is changed.
C15_AmendReplaces ==
    AmendOfLive =>
        /\ result = <<Amended(request.id, request.price, request.qty)>>
        /\ LiveIds(OwnAfter) = LiveIds(OwnBefore)
        /\ OwnAfter.orders[request.id] =
               Order(request.id, BTC, USD, request.side, request.price, request.qty)
        /\ \A o \in LiveIds(OwnBefore) \ {request.id} :
              /\ OwnAfter.orders[o] = OwnBefore.orders[o]
              /\ OwnAfter.prio[o] = OwnBefore.prio[o]
        /\ LiveView(OppAfter) = LiveView(OppBefore)
        /\ AmendedIsBest => peek(OwnAfter).order = OwnAfter.orders[request.id]

\* an amend changed price and quantity of an order that another order of the
\* same side was ahead of, and brought it to the top
C15_Witness ==
    /\ AmendOfLive
    /\ request.price # OwnBefore.orders[request.id].price
    /\ request.qty # OwnBefore.orders[request.id].qty
    /\ LiveIds(OwnBefore) # {request.id}
    /\ peek(OwnBefore).order.order_id # request.id
    /\ AmendedIsBest
    /\ peek(OwnAfter).order.order_id = request.id

\* the orders of the amended side that rest at the amended price with a
\* timestamp earlier than the amend's
AheadOfAmended ==
    {b \in LiveIds(OwnAfter) \ {request.id} :
        /\ OwnAfter.orders[b].price = request.price
        /\ OwnAfter.prio[b][2] < request.ts}

C16_AmendStep ==
    AmendOfLive => OwnAfter.prio[request.id] = <<request.price, request.ts>>

C16_NextAggressor ==
    (/\ AmendOfLive
     /\ request'.kind \in {"NewMarketOrder", "NewLimitOrder"}
     /\ request'.side # request.side)
        => \A b \in AheadOfAmended :
              \A k \in 1..NumTrades' :
                  SecondOf(k)'.order_id = request.id
                      => \E j \in 1..(k - 1) : SecondOf(j)'.order_id = b

\* C16: an amend replaces the priority of the order with (new price, new ts),
\* also when price and quantity are unchanged: the next aggressor trades
\* against every order resting at that price with an earlier timestamp before
\* it trades against the amended order.
C16_AmendLosesPriority == [][C16_AmendStep' /\ C16_NextAggressor]_vars

\* an aggressor traded against B and then against A, both resting at the same
\* price, where A had entered the queue before B at that price and was
\* re-stamped later than B
C16_Witness ==
    /\ Validated /\ IsNewOrder /\ NumTrades = 2
    /\ LET b == SecondOf(1).order_id
           a == SecondOf(2).order_id
       IN /\ a # b
          /\ OppBefore.orders[a].price = OppBefore.orders[b].price
          /\ OppBefore.prio[a][2] > OppBefore.prio[b][2]
          /\ \E i \in 1..Len(OppBefore.heap) :
                /\ OppBefore.heap[i].id = a
                /\ OppBefore.heap[i].price = OppBefore.orders[a].price
                /\ OppBefore.heap[i].ts < OppBefore.prio[b][2]

\* the reason of the first rule the last request violates, the rules taken in
\* the order: order asset, price asset, price > 0, quantity > 0, non-nil id
FirstRuleViolated ==
    IF request.kind \in {"NewMarketOrder", "NewLimitOrder"} /\ request.order_asset # BTC
        THEN ERR_BAD_ORDER_ASSET
    ELSE IF request.kind \in {"NewMarketOrder", "NewLimitOrder"} /\ request.price_asset # USD
        THEN ERR_BAD_PRICE_ASSET
    ELSE IF request.kind \in {"NewLimitOrder", "AmendOrder"} /\ request.price <= 0
        THEN ERR_BAD_PRICE_VALUE
    ELSE IF request.kind \in {"NewMarketOrder", "NewLimitOrder", "AmendOrder"}
            /\ request.qty <= 0
        THEN ERR_BAD_QUANTITY_VALUE
    ELSE ERR_BAD_ORDER_ID

\* C17: a rejected request reports the reason of the first rule it violates,
\* the rules checked in the order order asset, price asset, price > 0,
\* quantity > 0, non-nil id; an AmendOrder with the nil id and a non-positive
\* price or quantity reports the price / quantity reason.
C17_RuleOrder ==
    Rejected => result = <<ValidationFailed(FirstRuleViolated)>>

\* C18: current_spread returns a value iff both queues hold a live order, the
\* value being (highest live bid price, lowest live ask price); the call
\* changes no live order, quantity or priority.
C18_SpreadOfBest ==
    request.kind = "CurrentSpread" =>
        /\ spread # <<>> <=> (LiveIds(prev_bid) # {} /\ LiveIds(prev_ask) # {})
        /\ spread # <<>> => spread = <<BestPrice(prev_bid), BestPrice(prev_ask)>>
        /\ result = <<>>
        /\ LiveView(bid_queue) = LiveView(prev_bid)
        /\ LiveView(ask_queue) = LiveView(prev_ask)
        /\ peek(bid_queue).order = peek(prev_bid).order
        /\ peek(ask_queue).order = peek(prev_ask).order

\* current_spread returned a value after skipping an entry that a cancel or
\* an amend left at the top of a heap
C18_Witness ==
    /\ request.kind = "CurrentSpread"
    /\ spread # <<>>
    /\ (bid_queue.heap # prev_bid.heap \/ ask_queue.heap # prev_ask.heap)

\* the book of the scenario before its fourth call: bids 41711.760112 x 0.15
\* and 1.01 x 0.4, ask 41712.60777901 x 1.0223; the call is limit ask 1.03 x 0.5
FourthCall ==
    /\ request = request_list[4]
    /\ LiveIds(prev_bid) = {1, 3}
    /\ prev_bid.orders[1] = Order(1, BTC, USD, Bid, 4171176, 1500)
    /\ prev_bid.orders[3] = Order(3, BTC, USD, Bid, 101, 4000)
    /\ LiveIds(prev_ask) = {2}
    /\ prev_ask.orders[2] = Order(2, BTC, USD, Ask, 4171260, 10223)

\* the book the scenario's fourth call leaves according to the scenario: the
\* ask is filled and the 1.01 bid rests with 0.05
AfterFourthCallAsStated ==
    /\ LiveIds(bid_queue) = {3}
    /\ bid_queue.orders[3] = Order(3, BTC, USD, Bid, 101, 500)
    /\ LiveView(ask_queue) = LiveView(prev_ask)

\* C19 as stated: the fourth call returns Accepted(ask), PartiallyFilled(ask,
\* 41711.760112, 0.15), Filled(first bid, 41711.760112, 0.15),
\* PartiallyFilled(ask, 1.01, 0.35), Filled(ask, 1.01, 0.35), and leaves the
\* 1.01 bid resting with quantity 0.05.
C19_AsStated ==
    FourthCall =>
        /\ result = << Accepted(4, BTC, Limit, USD, 103, 5000, Ask),
                       PartiallyFilled(4, Ask, Limit, 4171176, 1500),
                       Filled(1, Bid, Limit, 4171176, 1500),
                       PartiallyFilled(4, Ask, Limit, 101, 3500),
                       Filled(4, Ask, Limit, 101, 3500) >>
        /\ AfterFourthCallAsStated

\* C19 (amended): the fourth call returns exactly Accepted(ask),
\* PartiallyFilled(ask, 41711.760112, 0.15), Filled(first bid, 41711.760112,
\* 0.15); the ask's price 1.03 does not overlap the next bid 1.01, so the ask
\* rests at 1.03 with quantity 0.35 and the 1.01 bid keeps its quantity 0.4.
C19_FourthCall ==
    FourthCall =>
        /\ result = << Accepted(4, BTC, Limit, USD, 103, 5000, Ask),
                       PartiallyFilled(4, Ask, Limit, 4171176, 1500),
                       Filled(1, Bid, Limit, 4171176, 1500) >>
        /\ LiveIds(bid_queue) = {3}
        /\ bid_queue.orders[3] = Order(3, BTC, USD, Bid, 101, 4000)
        /\ LiveIds(ask_queue) = {2, 4}
        /\ ask_queue.orders[2] = prev_ask.orders[2]
        /\ ask_queue.orders[4] = Order(4, BTC, USD, Ask, 103, 3500)
        /\ ask_queue.prio[4] = <<103, 4>>
        /\ spread = <<101, 103>>

\* the scenario's fourth call was made, after its first three in their order
C19_Witness ==
    /\ FourthCall
    /\ ncalls = 4
    /\ prev_bid.heap = <<HeapEntry(1, 4171176, 1), HeapEntry(3, 101, 3)>>
    /\ NumTrades = 1

\* what peek returns is a live order of the queue with the best priority,
\* held with its current price and quantity, and nothing when no order is live
BestIsLive(q) ==
    LET top == peek(q).order IN
    IF LiveIds(q) = {} THEN top = NoOrder
    ELSE /\ top # NoOrder
         /\ IsBestAmong(q, top.order_id, LiveIds(q))
         /\ top = q.orders[top.order_id]
         /\ pop(q).order = top
         /\ top.order_id \notin LiveIds(pop(q).q)

\* every maker of the last call was live when the call began and was matched
\* as the order it then was (its price and quantity after any amend)
MakersWereLive ==
    (Validated /\ IsNewOrder) =>
        /\ Len(matches) = NumTrades
        /\ \A k \in 1..NumTrades :
              /\ SecondOf(k).order_id \in LiveIds(OppBefore)
              /\ matches[k].maker = OppBefore.orders[SecondOf(k).order_id]
              /\ SecondOf(k).price = OppBefore.orders[SecondOf(k).order_id].price
              /\ SecondOf(k).qty <= OppBefore.orders[SecondOf(k).order_id].qty

\* an order cancelled or fully filled by the last call is no longer live on its side
GoneWhenDone ==
    /\ CancelOfLive => request.id \notin LiveIds(OwnAfter)
    /\ (Validated /\ IsNewOrder) =>
          \A k \in 1..NumTrades :
              SecondOf(k).type = "Filled" => SecondOf(k).order_id \notin LiveIds(OppAfter)

\* an id that is not live on a side becomes live there only by a NewLimitOrder
\* for that id and side
OnlyInsertRevives ==
    /\ \A id \in LiveIds(bid_queue') \ LiveIds(bid_queue) :
          request'.kind = "NewLimitOrder" /\ request'.order_id = id /\ request'.side = Bid
    /\ \A id \in LiveIds(ask_queue') \ LiveIds(ask_queue) :
          request'.kind = "NewLimitOrder" /\ request'.order_id = id /\ request'.side = Ask

\* C20: a ghost is never matched.  An order that was cancelled or fully
\* filled leaves the live set of its side and its id comes back only by a
\* NewLimitOrder for it; every maker of a trade and the best order of each
\* side is a live order, matched with the price and quantity it has after its
\* last amend.
C20_GhostNeverMatched ==
    [][/\ BestIsLive(bid_queue') /\ BestIsLive(ask_queue')
       /\ MakersWereLive' /\ GoneWhenDone'
       /\ OnlyInsertRevives]_vars

\* an aggressor traded with an order at its amended price while the entry the
\* amend orphaned lay at the top of the heap
C20_Witness ==
    /\ Validated /\ IsNewOrder /\ NumTrades > 0
    /\ IsStall(OppBefore, OppBefore.heap[TopIndex(OppBefore)])
    /\ OppBefore.heap[TopIndex(OppBefore)].id = SecondOf(1).order_id
    /\ OppBefore.heap[TopIndex(OppBefore)].price # SecondOf(1).price

\* the last request was a validated NewLimitOrder for an id live on its own
\* side, with an opposite side that is empty or that its price does not overlap
DuplicateNotCrossing ==
    /\ Validated /\ request.kind = "NewLimitOrder"
    /\ request.order_id \in LiveIds(OwnBefore)
    /\ ~OverlapsBefore

\* C21: a NewLimitOrder whose id is already live on its own side and that
\* does not cross returns exactly [Accepted, DuplicateOrderID(id)], and the
\* resting order of that id keeps its price, quantity and priority.
C21_DuplicateRejected ==
    DuplicateNotCrossing =>
        /\ result = <<Accepted(request.order_id, request.order_asset, Limit,
                               request.price_asset, request.price, request.qty,
                               request.side),
                      DuplicateOrderID(request.order_id)>>
        /\ OwnAfter.orders[request.order_id] = OwnBefore.orders[request.order_id]
        /\ OwnAfter.prio[request.order_id] = OwnBefore.prio[request.order_id]
        /\ LiveView(OwnAfter) = LiveView(OwnBefore)
        /\ LiveView(OppAfter) = LiveView(OppBefore)
        /\ peek(OwnAfter).order = peek(OwnBefore).order

\* a duplicate with another quantity and timestamp arrived while the opposite
\* side held an order its price does not overlap
C21_Witness ==
    /\ DuplicateNotCrossing
    /\ LiveIds(OppBefore) # {}
    /\ request.qty # OwnBefore.orders[request.order_id].qty
    /\ request.ts # OwnBefore.prio[request.order_id][2]
    /\ HasEvent("DuplicateOrderID")

\* C22: side purity: after every process_order call every live order of the
\* bid queue has side = bid and every live order of the ask queue has
\* side = ask, also after amends and after partial fills that rewrite the
\* top-of-book order.
C22_SidePurity ==
    /\ \A id \in LiveIds(bid_queue) : bid_queue.orders[id].side = Bid
    /\ \A id \in LiveIds(ask_queue) : ask_queue.orders[id].side = Ask

\* a partial fill rewrote an order that an amend had replaced before
C22_Witness ==
    /\ LastMakerPartial
    /\ LastMaker \in LiveIds(OppAfter)
    /\ OppAfter.orders[LastMaker].qty < OppBefore.orders[LastMaker].qty
    /\ LastMaker \in OppBefore.stalled

\* number of heap entries of a queue that are stalls
StalledEntries(q) == Cardinality({i \in 1..Len(q.heap) : IsStall(q, q.heap[i])})

\* the ids of a queue in the order successive pops return them
RECURSIVE Drain(_)
Drain(q) ==
    LET p == pop(q) IN
    IF p.order = NoOrder THEN <<>> ELSE <<p.order.order_id>> \o Drain(p.q)

\* the stall budget of a queue, and what a rebuild of it would keep
WithinBudget(q) ==
    /\ q.stalled_count <= MAX_STALLED_INDICES_IN_QUEUE
    /\ StalledEntries(q) <= MAX_STALLED_INDICES_IN_QUEUE
    /\ LiveView(rebuild(q)) = LiveView(q)
    /\ Drain(rebuild(q)) = Drain(q)

\* the last call was a cancel or an amend of a live order that found the
\* stall counter of its queue at the bound
PushedPastBound ==
    /\ (CancelOfLive \/ AmendOfLive)
    /\ OwnBefore.stalled_count = MAX_STALLED_INDICES_IN_QUEUE

\* C23: with the configured bound of 10, after every process_order call each
\* queue holds at most 10 stalled heap entries: the cancel or amend that
\* pushes the count past the bound rebuilds the heap from the live orders,
\* and a rebuild changes neither the live set nor the priority order of the
\* live orders.
C23_StallBudget ==
    /\ WithinBudget(bid_queue)
    /\ WithinBudget(ask_queue)
    /\ PushedPastBound =>
          /\ OwnAfter.stalled_count = 0
          /\ StalledEntries(OwnAfter) = 0
          /\ Len(OwnAfter.heap) = Cardinality(LiveIds(OwnAfter))
          /\ Drain(OwnAfter) = Drain(rebuild(OwnAfter))

\* an amend found ten stalled entries in its queue and rebuilt the heap, two
\* orders being live
C23_Witness ==
    /\ PushedPastBound /\ request.kind = "AmendOrder"
    /\ StalledEntries(OwnBefore) = MAX_STALLED_INDICES_IN_QUEUE
    /\ OwnAfter.stalled_count = 0
    /\ Len(OwnAfter.heap) < Len(OwnBefore.heap)
    /\ Cardinality(LiveIds(OwnAfter)) = 2
    /\ Drain(OwnAfter) = <<2, 1>>

\* the order_matching calls of the last request that returned "not complete":
\* each is followed by one more recursive step
NonFinal == {k \in 1..Len(matches) : matches[k].qty > matches[k].maker.qty}

\* number of process_market_order / process_limit_order invocations of the
\* last request: the first one and one per order_matching call that was not complete
RecursiveSteps == Cardinality(NonFinal) + 1

\* C24: the matching recursion of a market or limit order makes at most
\* (number of live opposite orders at the start + 1) steps, and each
\* non-final step removes one live order from the opposite queue.
C24_RecursionBounded ==
    (Validated /\ IsNewOrder) =>
        /\ RecursiveSteps <= Cardinality(LiveIds(OppBefore)) + 1
        /\ Len(matches) <= RecursiveSteps
        /\ NonFinal \in {1..Len(matches), 1..(Len(matches) - 1)}
        /\ \A k \in 1..Len(matches) :
              /\ matches[k].maker.order_id \in LiveIds(OppBefore)
              /\ \A j \in 1..(k - 1) :
                    matches[j].maker.order_id # matches[k].maker.order_id
        /\ \A k \in NonFinal : matches[k].maker.order_id \notin LiveIds(OppAfter)
        /\ Cardinality(LiveIds(OppBefore)) - Cardinality(LiveIds(OppAfter))
               >= Cardinality(NonFinal)

\* a market order took the order of the opposite side in its first step and
\* its second step found the side empty, after skipping a stalled entry
C24_Witness ==
    /\ Validated /\ request.kind = "NewMarketOrder"
    /\ LiveIds(OppBefore) # {}
    /\ RecursiveSteps = Cardinality(LiveIds(OppBefore)) + 1
    /\ HasEvent("NoMatch")
    /\ StalledEntries(OppBefore) > 0

\* every live order of the queue has a positive price and a positive quantity
AllPositive(q) ==
    \A id \in LiveIds(q) : q.orders[id].price > 0 /\ q.orders[id].qty > 0

\* C25: after every process_order call every live order has price > 0 and
\* remaining quantity > 0; a maker whose remaining quantity reaches zero is
\* removed, and the quantity carried into each matching step is > 0.
C25_PositiveOrders ==
    /\ AllPositive(bid_queue)
    /\ AllPositive(ask_queue)
    /\ (Validated /\ IsNewOrder) =>
          /\ \A k \in 1..Len(matches) :
                /\ matches[k].qty > 0
                /\ matches[k].maker.qty > 0
                /\ matches[k].qty >= matches[k].maker.qty
                      => matches[k].maker.order_id \notin LiveIds(OppAfter)
          /\ HasEvent("NoMatch") => request.qty - Traded > 0
          /\ Rested > 0 => Rested = request.qty - Traded

\* a limit order filled a smaller maker, which was removed, and rests with
\* the remainder
C25_Witness ==
    /\ Validated /\ request.kind = "NewLimitOrder"
    /\ NumTrades = 1
    /\ SecondOf(1).type = "Filled"
    /\ SecondOf(1).order_id \notin LiveIds(OppAfter)
    /\ Rested > 0
    /\ Rested < request.qty

\* C26: in the result of a validated NewMarketOrder or NewLimitOrder of
\* quantity q the aggressor receives Filled iff q was traded in that call;
\* the Filled event is its last trade event and its earlier trade events are
\* PartiallyFilled; a maker receives Filled exactly when it is removed from
\* the book and PartiallyFilled exactly when it stays with reduced quantity.
C26_FillLabels ==
    (Validated /\ IsNewOrder) =>
        /\ (\E k \in 1..NumTrades : FirstOf(k).type = "Filled") <=> Traded = request.qty
        /\ \A k \in 1..NumTrades :
              /\ FirstOf(k).order_id = request.order_id
              /\ FirstOf(k).side = request.side
              /\ FirstOf(k).type = "Filled" => k = NumTrades
              /\ k < NumTrades => FirstOf(k).type = "PartiallyFilled"
              /\ SecondOf(k).order_id \in LiveIds(OppBefore)
              /\ SecondOf(k).type = "Filled"
                    <=> SecondOf(k).order_id \notin LiveIds(OppAfter)
              /\ SecondOf(k).type = "PartiallyFilled"
                    <=> /\ SecondOf(k).order_id \in LiveIds(OppAfter)
                        /\ OppAfter.orders[SecondOf(k).order_id].qty
                              = OppBefore.orders[SecondOf(k).order_id].qty - SecondOf(k).qty
                        /\ OppAfter.orders[SecondOf(k).order_id].qty
                              < OppBefore.orders[SecondOf(k).order_id].qty

\* two trades in one call: the aggressor is PartiallyFilled against a maker
\* that is removed, then Filled against a maker that stays with less
C26_Witness ==
    /\ Validated /\ IsNewOrder
    /\ NumTrades = 2
    /\ FirstOf(1).type = "PartiallyFilled" /\ SecondOf(1).type = "Filled"
    /\ FirstOf(2).type = "Filled" /\ SecondOf(2).type = "PartiallyFilled"
    /\ Traded = request.qty
    /\ SecondOf(1).order_id \notin LiveIds(OppAfter)
    /\ SecondOf(2).order_id \in LiveIds(OppAfter)

\* the event types an AmendOrder or CancelOrder request may be answered with
AnswersOf(kind) ==
    IF kind = "AmendOrder" THEN {"Amended", "OrderNotFound"}
    ELSE {"Cancelled", "OrderNotFound"}

\* C27: AmendOrder and CancelOrder never trigger matching: the result is
\* exactly one event (Amended/Cancelled or OrderNotFound, or ValidationFailed),
\* never Filled or PartiallyFilled, and the queue of the other side is
\* unchanged, even when the amended price overlaps the opposite best price.
C27_NoMatchingOnAmendCancel ==
    request.kind \in {"AmendOrder", "CancelOrder"} =>
        /\ Len(result) = 1
        /\ result[1].type \in
              (IF Validated THEN AnswersOf(request.kind) ELSE {"ValidationFailed"})
        /\ ~IsTrade(result[1])
        /\ matches = <<>>
        /\ OppAfter = OppBefore

\* an order was amended to a price that overlaps the opposite best: the
\* book is left crossed and nothing was traded
C27_Witness ==
    /\ AmendOfLive
    /\ result = <<Amended(request.id, request.price, request.qty)>>
    /\ OverlapsAfter
    /\ OwnAfter.orders[request.id].price = request.price
    /\ OwnBefore.orders[request.id].price # request.price
    /\ OppAfter = OppBefore

RECURSIVE SumSecond(_)
SumSecond(k) == IF k = 0 THEN 0 ELSE SecondOf(k).qty + SumSecond(k - 1)
\* quantity traded by the makers of the last request as its result reports it
MakersTraded == SumSecond(NumTrades)

\* ids of the opposite orders the last request traded with
MatchedIds == {SecondOf(k).order_id : k \in 1..NumTrades}

\* the opposite orders that were not matched are as before the call, and no
\* order appeared on the opposite side
UnmatchedUntouched ==
    /\ LiveIds(OppAfter) \subseteq LiveIds(OppBefore)
    /\ \A o \in LiveIds(OppBefore) \ MatchedIds :
          /\ o \in LiveIds(OppAfter)
          /\ OppAfter.orders[o] = OppBefore.orders[o]
          /\ OppAfter.prio[o] = OppBefore.prio[o]

\* C28: for every validated NewMarketOrder or NewLimitOrder of quantity q the
\* sum of the qty fields of the aggressor's trade events equals the sum of the
\* qty fields of the makers' trade events, equals the decrease of total live
\* quantity on the opposite side, and never exceeds q; unmatched opposite
\* orders and all other orders of the aggressor's own side are unchanged.
C28_QuantityConserved ==
    (Validated /\ IsNewOrder) =>
        /\ Traded = MakersTraded
        /\ Traded = TotalQty(OppBefore) - TotalQty(OppAfter)
        /\ Traded <= request.qty
        /\ UnmatchedUntouched
        /\ OthersUntouched
        /\ request.order_id \in LiveIds(OwnBefore) =>
              /\ request.order_id \in LiveIds(OwnAfter)
              /\ OwnAfter.orders[request.order_id] = OwnBefore.orders[request.order_id]
              /\ OwnAfter.prio[request.order_id] = OwnBefore.prio[request.order_id]

\* an order traded with part of the opposite side while another opposite
\* order and an order of its own side stayed as they were
C28_Witness ==
    /\ Validated /\ IsNewOrder
    /\ NumTrades > 0
    /\ Traded = TotalQty(OppBefore) - TotalQty(OppAfter)
    /\ LiveIds(OppBefore) \ MatchedIds # {}
    /\ LiveIds(OwnBefore) \ {request.order_id} # {}
    /\ UnmatchedUntouched
    /\ OthersUntouched

====
